---- MODULE Spec2Model ----
(***************************************************************************)
(* HealthVault: the Express/PostgreSQL record server (src/server.js,       *)
(* src/db-setup.sql) and its browser client (src/unnamed/part_000).        *)
(*                                                                         *)
(* The store is the single table medical_records.  A text value is a TLA+  *)
(* string; a calendar date on the wire is an ISO string and in the table   *)
(* a day number (the DATE column); JSON undefined and SQL NULL are the two *)
(* markers below.  The connection to the store is taken to be up: the 500  *)
(* answers modelled are the ones the schema itself produces (a value the   *)
(* column type rejects).                                                   *)
(***************************************************************************)
EXTENDS Integers, Sequences, FiniteSets, TLC

VARIABLES
    \* the server
    table,            \* medical_records: id -> row
    seq,              \* last value of the id sequence
    now,              \* CURRENT_TIMESTAMP
    initPc,           \* position of initializeDatabase
    req, resp,        \* the request handled last and its answer
    \* the browser client
    medicalRecords,   \* let medicalRecords
    formHidden,       \* addFormContainer has class hidden
    form,             \* values of the six form fields
    notification,     \* the .notification element
    calls,            \* async calls suspended at an await
    net,              \* fetches in flight: requests sent, answers not yet read
    issued,           \* fetches issued so far
    \* history
    startEmpty,       \* the table was empty at startup
    nreq,             \* requests handled so far
    deleted,          \* ids whose DELETE was answered 200
    posted,           \* id -> body, for rows created by POST and not named by PUT or DELETE since
    user,             \* requests the user started so far
    lastLoad,         \* the latest issued list fetch that was read with success,
                      \* and whether some list fetch was read with a failure
    dels              \* DELETE fetches issued: tag -> id and answer read

clientVars ==
    <<medicalRecords, formHidden, form, notification, calls, net, issued, user,
      lastLoad, dels>>
vars ==
    <<table, seq, now, initPc, req, resp, startEmpty, nreq, deleted, posted,
      medicalRecords, formHidden, form, notification, calls, net, issued, user,
      lastLoad, dels>>

(***************************************************************************)
(* Bounds of the model.                                                    *)
(***************************************************************************)
MaxReq == 3
MaxBootReq == 2
MaxUser == 4
MaxSubmit == 2

(***************************************************************************)
(* Column widths of medical_records.                                       *)
(***************************************************************************)
MedicineLen == 255
DosageLen == 100
DurationLen == 100
ConditionLen == 255

(***************************************************************************)
(* Values.                                                                 *)
(***************************************************************************)
Undefined == "<undefined>"
Null == "<null>"
NaN == -1

RECURSIVE Rep(_, _)
Rep(s, n) == IF n = 0 THEN "" ELSE s \o Rep(s, n - 1)

\* !v for the values a JSON body field takes here (a string, or absent).
Falsy(v) == v = Undefined \/ v = Null \/ v = ""

\* v || null
OrNull(v) == IF Falsy(v) THEN Null ELSE v

\* new Date(s).getTime() for an ISO date string, as a day number; NaN otherwise.
DateValue(s) ==
    CASE s = "2024-09-20" -> 20240920
      [] s = "2024-09-30" -> 20240930
      [] s = "2024-10-01" -> 20241001
      [] s = "2024-10-15" -> 20241015
      [] s = "2024-10-22" -> 20241022
      [] s = "2024-10-31" -> 20241031
      [] s = "2024-11-01" -> 20241101
      [] s = "2024-11-06" -> 20241106
      [] s = "2024-11-10" -> 20241110
      [] OTHER -> NaN

\* new Date(a) > new Date(b): false as soon as one side is an Invalid Date.
DateAfter(a, b) ==
    /\ DateValue(a) # NaN
    /\ DateValue(b) # NaN
    /\ DateValue(a) > DateValue(b)

(***************************************************************************)
(* The store: table medical_records of db-setup.sql.  A statement's        *)
(* parameters p carry the six user values as the handler passes them.  An  *)
(* outcome is [err, rows, table, seq]: whether the statement raised, the   *)
(* rows it RETURNs, and the table and the id sequence after it.            *)
(***************************************************************************)

\* The DATE parameters are read when the statement is bound: a string that is
\* no date raises whatever rows the statement would touch.
BindOk(p) == DateValue(p.startDate) # NaN /\ DateValue(p.endDate) # NaN

\* NOT NULL and VARCHAR(n) of the six user columns.
FitsColumns(p) ==
    /\ p.medicine # Null /\ Len(p.medicine) <= MedicineLen
    /\ p.dosage # Null /\ Len(p.dosage) <= DosageLen
    /\ p.duration # Null /\ Len(p.duration) <= DurationLen
    /\ (p.condition = Null \/ Len(p.condition) <= ConditionLen)

Raised(tbl, sq) == [err |-> TRUE, rows |-> <<>>, table |-> tbl, seq |-> sq]

\* Fault: the id taken as MAX(id) + 1, which hands out a deleted id again.
NextIdFromMax(tbl, sq) ==
    IF DOMAIN tbl = {} THEN 1
    ELSE 1 + CHOOSE m \in DOMAIN tbl : \A i \in DOMAIN tbl : i <= m

\* id SERIAL: nextval of the sequence; a value handed out is never handed out again.
NextId(tbl, sq) == sq + 1

\* INSERT INTO medical_records (six user columns) VALUES (...) RETURNING *
\* created_at and updated_at take DEFAULT CURRENT_TIMESTAMP.  A row the columns
\* reject may or may not have consumed a sequence value.
Insert(tbl, sq, t, p) ==
    IF ~BindOk(p) THEN {Raised(tbl, sq)}
    ELSE IF ~FitsColumns(p) THEN {Raised(tbl, sq), Raised(tbl, NextId(tbl, sq))}
    ELSE LET id == NextId(tbl, sq)
             row == [id |-> id, medicine |-> p.medicine, dosage |-> p.dosage,
                     duration |-> p.duration,
                     start_date |-> DateValue(p.startDate),
                     end_date |-> DateValue(p.endDate),
                     condition |-> p.condition,
                     created_at |-> t, updated_at |-> t]
         IN {[err |-> FALSE, rows |-> <<row>>,
              table |-> [i \in DOMAIN tbl \cup {id} |-> IF i = id THEN row ELSE tbl[i]],
              seq |-> id]}

\* Fault: the trigger missing, updated_at left as it was.
WithoutTrigger(new, t) == new

\* CREATE TRIGGER update_medical_records_updated_at BEFORE UPDATE ... FOR EACH ROW
update_updated_at_column(new, t) == [new EXCEPT !.updated_at = t]

\* The SET clause of the UPDATE applied to one row.
SetUserColumns(old, p) ==
    [old EXCEPT !.medicine = p.medicine, !.dosage = p.dosage,
                !.duration = p.duration,
                !.start_date = DateValue(p.startDate),
                !.end_date = DateValue(p.endDate),
                !.condition = p.condition]

\* Fault: an upsert, which creates the row when no row has the id.
Upsert(tbl, sq, t, p, id) ==
    IF ~BindOk(p) \/ ~FitsColumns(p) THEN {Raised(tbl, sq)}
    ELSE LET old == IF id \in DOMAIN tbl THEN tbl[id]
                    ELSE [id |-> id, medicine |-> "", dosage |-> "", duration |-> "",
                          start_date |-> 0, end_date |-> 0, condition |-> Null,
                          created_at |-> t, updated_at |-> t]
             row == update_updated_at_column(SetUserColumns(old, p), t)
         IN {[err |-> FALSE, rows |-> <<row>>,
              table |-> [i \in DOMAIN tbl \cup {id} |-> IF i = id THEN row ELSE tbl[i]],
              seq |-> sq]}

\* UPDATE medical_records SET (six user columns) WHERE id = $7 RETURNING *
\* With no row matched, whether an overlong value still raises depends on when
\* the server coerces it (plan time or per row): both outcomes are kept.
Update(tbl, sq, t, p, id) ==
    IF ~BindOk(p) THEN {Raised(tbl, sq)}
    ELSE IF id \notin DOMAIN tbl
    THEN {[err |-> FALSE, rows |-> <<>>, table |-> tbl, seq |-> sq]}
         \cup (IF FitsColumns(p) THEN {} ELSE {Raised(tbl, sq)})
    ELSE IF ~FitsColumns(p) THEN {Raised(tbl, sq)}
    ELSE LET row == update_updated_at_column(SetUserColumns(tbl[id], p), t)
         IN {[err |-> FALSE, rows |-> <<row>>,
              table |-> [tbl EXCEPT ![id] = row], seq |-> sq]}

\* DELETE FROM medical_records WHERE id = $1 RETURNING *
Delete(tbl, sq, id) ==
    IF id \notin DOMAIN tbl
    THEN [err |-> FALSE, rows |-> <<>>, table |-> tbl, seq |-> sq]
    ELSE [err |-> FALSE, rows |-> <<tbl[id]>>,
          table |-> [i \in DOMAIN tbl \ {id} |-> tbl[i]], seq |-> sq]

\* SELECT * FROM medical_records WHERE id = $1
SelectById(tbl, id) == IF id \in DOMAIN tbl THEN <<tbl[id]>> ELSE <<>>

\* Fault: ORDER BY start_date ASC.
StartDateAsc(a, b) == a.start_date <= b.start_date

\* The comparison of ORDER BY start_date DESC: a may come before b.
StartDateDesc(a, b) == a.start_date >= b.start_date

\* SELECT * FROM medical_records ORDER BY start_date DESC: every order of the
\* rows of S the clause allows (rows of equal start_date come in any order).
RECURSIVE OrderByStartDate(_, _)
OrderByStartDate(tbl, S) ==
    IF S = {} THEN {<<>>}
    ELSE UNION {{<<tbl[i]>> \o r : r \in OrderByStartDate(tbl, S \ {i})} :
                i \in {j \in S : \A k \in S : StartDateDesc(tbl[j], tbl[k])}}

\* SELECT COUNT(*) as count FROM medical_records
CountRows(tbl) == Cardinality(DOMAIN tbl)

(***************************************************************************)
(* The HTTP handlers of server.js.  A handler's outcome is                 *)
(* [status, error, rows, table, seq]: the answer (rows holds the row or    *)
(* rows of a JSON answer) and the store after it.                          *)
(***************************************************************************)
Answer(status, error, rows, tbl, sq) ==
    [status |-> status, error |-> error, rows |-> rows, table |-> tbl, seq |-> sq]

\* if (!medicine || !dosage || !duration || !startDate || !endDate)
MissingRequired(b) ==
    \/ Falsy(b.medicine)
    \/ Falsy(b.dosage)
    \/ Falsy(b.duration)
    \/ Falsy(b.startDate)
    \/ Falsy(b.endDate)

\* Fault: condition passed as given, without || null.
ParamsAsGiven(b) == b

\* [medicine, dosage, duration, startDate, endDate, condition || null]
Params(b) == [b EXCEPT !.condition = OrNull(b.condition)]

\* The validation of app.post: the 400 message, or "" when the body passes.
PostValidation(b) ==
    IF MissingRequired(b) THEN "All required fields must be provided"
    ELSE IF DateAfter(b.startDate, b.endDate) THEN "Start date cannot be after end date"
    ELSE ""

\* The validation of app.put: the 400 message, or "" when the body passes.
PutValidation(b) ==
    IF MissingRequired(b) THEN "All required fields must be provided"
    ELSE ""

\* app.post('/api/records')
PostRecord(tbl, sq, t, b) ==
    IF PostValidation(b) # ""
    THEN {Answer(400, PostValidation(b), <<>>, tbl, sq)}
    ELSE {IF o.err THEN Answer(500, "Failed to add record", <<>>, o.table, o.seq)
          ELSE Answer(201, "", o.rows, o.table, o.seq) :
          o \in Insert(tbl, sq, t, Params(b))}

\* app.put('/api/records/:id')
PutRecord(tbl, sq, t, id, b) ==
    IF PutValidation(b) # ""
    THEN {Answer(400, PutValidation(b), <<>>, tbl, sq)}
    ELSE {IF o.err THEN Answer(500, "Failed to update record", <<>>, o.table, o.seq)
          ELSE IF Len(o.rows) = 0
          THEN Answer(404, "Record not found", <<>>, o.table, o.seq)
          ELSE Answer(200, "", o.rows, o.table, o.seq) :
          o \in Update(tbl, sq, t, Params(b), id)}

\* app.delete('/api/records/:id')
DeleteRecord(tbl, sq, id) ==
    LET o == Delete(tbl, sq, id)
    IN IF Len(o.rows) = 0
       THEN Answer(404, "Record not found", <<>>, o.table, o.seq)
       ELSE Answer(200, "", <<>>, o.table, o.seq)

\* app.get('/api/records/:id')
GetRecord(tbl, sq, id) ==
    LET rows == SelectById(tbl, id)
    IN IF Len(rows) = 0
       THEN Answer(404, "Record not found", <<>>, tbl, sq)
       ELSE Answer(200, "", rows, tbl, sq)

\* app.get('/api/records')
GetRecords(tbl, sq) ==
    {Answer(200, "", rows, tbl, sq) : rows \in OrderByStartDate(tbl, DOMAIN tbl)}

(***************************************************************************)
(* Startup seeding: initializeDatabase and insertSampleData.               *)
(***************************************************************************)
Sample(m, d, u, s, e, c) ==
    [medicine |-> m, dosage |-> d, duration |-> u, startDate |-> s, endDate |-> e,
     condition |-> c]

sampleData ==
    << Sample("Aspirin", "500mg", "7 days", "2024-10-15", "2024-10-22", "Headache"),
       Sample("Amoxicillin", "250mg", "10 days", "2024-09-20", "2024-09-30",
              "Throat Infection"),
       Sample("Vitamin D", "1000 IU", "30 days", "2024-10-01", "2024-10-31",
              "Deficiency") >>

\* Position of initializeDatabase after the COUNT query returned count.
AfterCount(count) == IF count = 0 THEN "insert1" ELSE "done"

\* Index into sampleData of the row the loop inserts next.
SeedIndex(pc) ==
    CASE pc = "insert1" -> 1
      [] pc = "insert2" -> 2
      [] pc = "insert3" -> 3
      [] OTHER -> 0

AfterInsert(pc) ==
    CASE pc = "insert1" -> "insert2"
      [] pc = "insert2" -> "insert3"
      [] OTHER -> "done"

(***************************************************************************)
(* Requests.                                                               *)
(***************************************************************************)
Ibuprofen ==
    [medicine |-> "Ibuprofen", dosage |-> "200mg", duration |-> "5 days",
     startDate |-> "2024-11-01", endDate |-> "2024-11-06", condition |-> "Pain"]

NoBody ==
    [medicine |-> Undefined, dosage |-> Undefined, duration |-> Undefined,
     startDate |-> Undefined, endDate |-> Undefined, condition |-> Undefined]

\* Bodies the handlers pass and store.
GoodBodies ==
    { Ibuprofen,
      [Ibuprofen EXCEPT !.condition = ""],
      [Ibuprofen EXCEPT !.condition = Undefined],
      [Ibuprofen EXCEPT !.startDate = "2024-10-01", !.endDate = "2024-10-01"] }

\* startDate after endDate.
ReversedBodies == { [Ibuprofen EXCEPT !.startDate = "2024-11-10", !.endDate = "2024-11-01"] }

\* A required field absent or empty.
IncompleteBodies ==
    { [Ibuprofen EXCEPT !.medicine = Undefined],
      [Ibuprofen EXCEPT !.medicine = ""],
      [Ibuprofen EXCEPT !.dosage = ""],
      [Ibuprofen EXCEPT !.duration = ""],
      [Ibuprofen EXCEPT !.startDate = ""],
      [Ibuprofen EXCEPT !.endDate = Undefined] }

\* Values the handlers pass and the columns reject.
OversizeBodies ==
    { [Ibuprofen EXCEPT !.medicine = Rep("x", MedicineLen + 1)],
      [Ibuprofen EXCEPT !.dosage = Rep("x", DosageLen + 1)],
      [Ibuprofen EXCEPT !.startDate = "not-a-date"] }

Bodies == GoodBodies \cup ReversedBodies \cup IncompleteBodies \cup OversizeBodies

\* Ids a request names: every id handed out so far and one never handed out.
Ids == 1 .. (seq + 1)

Request(op, id, b) == [op |-> op, id |-> id, body |-> b]
Response(a) == [status |-> a.status, error |-> a.error, rows |-> a.rows]
NoRequest == Request("none", 0, NoBody)
NoResponse == [status |-> 0, error |-> "", rows |-> <<>>]

\* A row left in the table by an earlier run of the server.
EarlierRow ==
    [id |-> 1, medicine |-> "Ibuprofen", dosage |-> "200mg", duration |-> "5 days",
     start_date |-> 20241101, end_date |-> 20241106, condition |-> "Pain",
     created_at |-> 0, updated_at |-> 0]

EmptyTable == [i \in {} |-> EarlierRow]

EmptyForm ==
    [medicine |-> "", dosage |-> "", duration |-> "", startDate |-> "",
     endDate |-> "", condition |-> ""]

NoNotification == [type |-> "none", message |-> ""]

\* The page after DOMContentLoaded: showHome(), nothing loaded yet.
ClientIdle ==
    /\ medicalRecords = <<>>
    /\ formHidden = TRUE
    /\ form = EmptyForm
    /\ notification = NoNotification
    /\ calls = {}
    /\ net = {}
    /\ issued = 0
    /\ user = 0
    /\ lastLoad = [tag |-> 0, list |-> <<>>, failed |-> FALSE]
    /\ dels = <<>>

(***************************************************************************)
(* Startup.  initializeDatabase() is called without await and app.listen   *)
(* follows at once, so the seeding steps run beside the handlers.  Every   *)
(* statement runs at its own instant of CURRENT_TIMESTAMP.                 *)
(***************************************************************************)
ServerStart ==
    /\ now = 0
    /\ initPc = "count"
    /\ req = NoRequest
    /\ resp = NoResponse
    /\ nreq = 0
    /\ deleted = {}
    /\ posted = EmptyTable

InitBoot ==
    /\ \/ table = EmptyTable /\ seq = 0 /\ startEmpty = TRUE
       \/ table = [i \in {1} |-> EarlierRow] /\ seq = 1 /\ startEmpty = FALSE
    /\ ServerStart
    /\ ClientIdle

\* const countResult = await pool.query('SELECT COUNT(*) ...'); if (count === 0)
initializeDatabase ==
    /\ initPc = "count"
    /\ initPc' = AfterCount(CountRows(table))
    /\ now' = now + 1
    /\ UNCHANGED <<table, seq, startEmpty, req, resp, nreq, deleted, posted>>
    /\ UNCHANGED clientVars

\* One turn of the loop: await pool.query(insertSQL, data)
insertSampleData ==
    /\ SeedIndex(initPc) > 0
    /\ \E o \in Insert(table, seq, now, sampleData[SeedIndex(initPc)]) :
          /\ table' = o.table
          /\ seq' = o.seq
          /\ initPc' = IF o.err THEN "done" ELSE AfterInsert(initPc)
    /\ now' = now + 1
    /\ UNCHANGED <<startEmpty, req, resp, nreq, deleted, posted>>
    /\ UNCHANGED clientVars

\* The store and the answer after a handler ran.
Handled(r, a) ==
    /\ nreq' = nreq + 1
    /\ req' = r
    /\ resp' = Response(a)
    /\ table' = a.table
    /\ seq' = a.seq
    /\ now' = now + 1
    /\ UNCHANGED <<initPc, startEmpty>>

Post(b) ==
    /\ \E a \in PostRecord(table, seq, now, b) :
       /\ Handled(Request("POST", 0, b), a)
       /\ posted' = IF a.status = 201
                    THEN [i \in DOMAIN posted \cup {a.rows[1].id} |->
                            IF i = a.rows[1].id THEN b ELSE posted[i]]
                    ELSE posted
       /\ UNCHANGED deleted

Put(id, b) ==
    /\ \E a \in PutRecord(table, seq, now, id, b) :
       /\ Handled(Request("PUT", id, b), a)
       /\ posted' = IF a.status = 200
                    THEN [i \in DOMAIN posted \ {id} |-> posted[i]]
                    ELSE posted
       /\ UNCHANGED deleted

Del(id) ==
    LET a == DeleteRecord(table, seq, id)
    IN /\ Handled(Request("DELETE", id, NoBody), a)
       /\ deleted' = IF a.status = 200 THEN deleted \cup {id} ELSE deleted
       /\ posted' = IF a.status = 200
                    THEN [i \in DOMAIN posted \ {id} |-> posted[i]]
                    ELSE posted

Get(id) ==
    /\ Handled(Request("GET", id, NoBody), GetRecord(table, seq, id))
    /\ UNCHANGED <<deleted, posted>>

List ==
    /\ \E a \in GetRecords(table, seq) :
       /\ Handled(Request("LIST", 0, NoBody), a)
       /\ UNCHANGED <<deleted, posted>>

NextBoot ==
    \/ initializeDatabase
    \/ insertSampleData
    \/ nreq < MaxBootReq /\ UNCHANGED clientVars /\ \E b \in Bodies : Post(b)
    \/ nreq < MaxBootReq /\ UNCHANGED clientVars /\ \E id \in Ids, b \in Bodies : Put(id, b)
    \/ nreq < MaxBootReq /\ UNCHANGED clientVars /\ \E id \in Ids : Del(id)
    \/ nreq < MaxBootReq /\ UNCHANGED clientVars /\ \E id \in Ids : Get(id)
    \/ nreq < MaxBootReq /\ UNCHANGED clientVars /\ List

\* The server from startup on: seeding and requests interleaved.
SpecBoot == InitBoot /\ [][NextBoot]_vars

\* The store once initializeDatabase has run to its end on an empty table.
RECURSIVE Seeded(_)
Seeded(k) ==
    IF k = 0 THEN [err |-> FALSE, rows |-> <<>>, table |-> EmptyTable, seq |-> 0]
    ELSE LET s == Seeded(k - 1)
         IN CHOOSE o \in Insert(s.table, s.seq, k, sampleData[k]) : TRUE

Init ==
    /\ table = Seeded(Len(sampleData)).table
    /\ seq = Seeded(Len(sampleData)).seq
    /\ startEmpty = TRUE
    /\ now = Len(sampleData) + 1
    /\ initPc = "done"
    /\ req = NoRequest
    /\ resp = NoResponse
    /\ nreq = 0
    /\ deleted = {}
    /\ posted = EmptyTable
    /\ ClientIdle

Next ==
    \/ nreq < MaxReq /\ UNCHANGED clientVars /\ \E b \in Bodies : Post(b)
    \/ nreq < MaxReq /\ UNCHANGED clientVars /\ \E id \in Ids, b \in Bodies : Put(id, b)
    \/ nreq < MaxReq /\ UNCHANGED clientVars /\ \E id \in Ids : Del(id)
    \/ nreq < MaxReq /\ UNCHANGED clientVars /\ \E id \in Ids : Get(id)
    \/ nreq < MaxReq /\ UNCHANGED clientVars /\ List

\* The server after startup: requests handled one after another.
Spec == Init /\ [][Next]_vars

(***************************************************************************)
(* The browser client (part_000) with the server behind it.  A fetch in    *)
(* flight is a message of net, first a request, then the server's answer;  *)
(* the server takes the requests, and the client reads the answers, in any *)
(* order.  An async call suspended at an await is an element of calls:     *)
(* [fn, at, await], the function the user started, the await it stands at  *)
(* ("fetch": its own fetch, "load": the fetch of loadRecordsFromDB) and    *)
(* the tag of the fetch awaited.  What follows an await up to the next one *)
(* is one step.                                                            *)
(***************************************************************************)
Fetch(tag, op, id, b) ==
    [tag |-> tag, dir |-> "req", op |-> op, id |-> id, body |-> b,
     status |-> 0, error |-> "", rows |-> <<>>]

Answered(m, r) ==
    [m EXCEPT !.dir = "resp", !.status = r.status, !.error = r.error, !.rows = r.rows]

\* response.ok
Ok(m) == m.status >= 200 /\ m.status <= 299

\* The map of loadRecordsFromDB: snake_case row to camelCase record.
Normalize(record) ==
    [id |-> record.id, medicine |-> record.medicine, dosage |-> record.dosage,
     duration |-> record.duration, startDate |-> record.start_date,
     endDate |-> record.end_date,
     condition |-> IF Falsy(record.condition) THEN "" ELSE record.condition]

NormalizeAll(rows) == [k \in 1 .. Len(rows) |-> Normalize(rows[k])]

\* showNotification(message, type)
Notification(message, type) == [type |-> type, message |-> message]

\* error.error || fallback, and the message of the TypeError fetch rejects with
ErrorMessage(m, fallback) ==
    IF m.status = 0 THEN "Failed to fetch"
    ELSE IF Falsy(m.error) THEN fallback ELSE m.error

\* Values the user types into the form.
FormInputs ==
    { Ibuprofen,
      [Ibuprofen EXCEPT !.startDate = "2024-11-10", !.endDate = "2024-11-01"] }

\* Ids of the record cards, each with its Delete button.
ShownIds == {medicalRecords[k].id : k \in 1 .. Len(medicalRecords)}

InitClient ==
    /\ table = Seeded(Len(sampleData)).table
    /\ seq = Seeded(Len(sampleData)).seq
    /\ startEmpty = TRUE
    /\ now = Len(sampleData) + 1
    /\ initPc = "done"
    /\ req = NoRequest
    /\ resp = NoResponse
    /\ nreq = 0
    /\ deleted = {}
    /\ posted = EmptyTable
    /\ ClientIdle

\* The fetch of loadRecordsFromDB(), started from function fn.
StartLoad(fn, others, inFlight) ==
    /\ issued' = issued + 1
    /\ net' = inFlight \cup {Fetch(issued + 1, "LIST", 0, NoBody)}
    /\ calls' = others \cup {[fn |-> fn, at |-> "load", await |-> issued + 1]}

\* showHistory(): switch to the history section and load.
showHistory ==
    /\ user' = user + 1
    /\ StartLoad("showHistory", calls, net)
    /\ UNCHANGED <<medicalRecords, formHidden, form, notification, lastLoad, dels>>
    /\ UNCHANGED <<table, seq, now, initPc, req, resp, startEmpty, nreq, deleted, posted>>

\* loadRecordsFromDB() after its awaits, and the caller's lines after
\* await loadRecordsFromDB(): a failed load is caught inside and changes no
\* variable (the error panel replaces the cards).
loadRecordsFromDB ==
    \E c \in calls, m \in net :
       /\ c.at = "load" /\ m.tag = c.await /\ m.dir = "resp"
       /\ medicalRecords' = IF Ok(m) THEN NormalizeAll(m.rows) ELSE medicalRecords
       /\ notification' =
             CASE c.fn = "addRecord" -> Notification("Record added successfully!", "success")
               [] c.fn = "deleteRecord" -> Notification("Record deleted successfully!", "success")
               [] OTHER -> notification
       /\ lastLoad' = CASE ~Ok(m) -> [lastLoad EXCEPT !.failed = TRUE]
                        [] Ok(m) /\ m.tag > lastLoad.tag ->
                              [lastLoad EXCEPT !.tag = m.tag, !.list = NormalizeAll(m.rows)]
                        [] OTHER -> lastLoad
       /\ calls' = calls \ {c}
       /\ net' = net \ {m}
       /\ UNCHANGED <<formHidden, form, issued, user, dels>>
       /\ UNCHANGED <<table, seq, now, initPc, req, resp, startEmpty, nreq, deleted, posted>>

\* toggleAddForm()
toggleAddForm ==
    /\ formHidden' = ~formHidden
    /\ UNCHANGED <<medicalRecords, form, notification, calls, net, issued, user, lastLoad, dels>>
    /\ UNCHANGED <<table, seq, now, initPc, req, resp, startEmpty, nreq, deleted, posted>>

\* The user fills the open form.
FillForm(b) ==
    /\ ~formHidden
    /\ form # b
    /\ form' = b
    /\ UNCHANGED <<medicalRecords, formHidden, notification, calls, net, issued, user, lastLoad, dels>>
    /\ UNCHANGED <<table, seq, now, initPc, req, resp, startEmpty, nreq, deleted, posted>>

\* addRecord(event) up to its first await: the form is submitted.
addRecord(limit) ==
    /\ ~formHidden
    /\ IF DateAfter(form.startDate, form.endDate)
       THEN /\ notification' = Notification("Start date cannot be after end date", "error")
            /\ UNCHANGED <<calls, net, issued, user>>
       ELSE /\ user < limit
            /\ user' = user + 1
            /\ issued' = issued + 1
            /\ net' = net \cup {Fetch(issued + 1, "POST", 0, form)}
            /\ calls' = calls \cup {[fn |-> "addRecord", at |-> "fetch", await |-> issued + 1]}
            /\ UNCHANGED notification
    /\ UNCHANGED <<medicalRecords, formHidden, form, lastLoad, dels>>
    /\ UNCHANGED <<table, seq, now, initPc, req, resp, startEmpty, nreq, deleted, posted>>

\* addRecord after await fetch / await response.json(): on success
\* event.target.reset(), toggleAddForm() and the call of loadRecordsFromDB();
\* otherwise the catch.
addRecordAnswered ==
    \E c \in calls, m \in net :
       /\ c.fn = "addRecord" /\ c.at = "fetch" /\ m.tag = c.await /\ m.dir = "resp"
       /\ IF Ok(m)
          THEN /\ form' = EmptyForm
               /\ formHidden' = ~formHidden
               /\ StartLoad("addRecord", calls \ {c}, net \ {m})
               /\ UNCHANGED notification
          ELSE /\ notification' =
                     Notification(ErrorMessage(m, "Failed to add record"), "error")
               /\ calls' = calls \ {c}
               /\ net' = net \ {m}
               /\ UNCHANGED <<form, formHidden, issued>>
       /\ UNCHANGED <<medicalRecords, user, lastLoad, dels>>
       /\ UNCHANGED <<table, seq, now, initPc, req, resp, startEmpty, nreq, deleted, posted>>

\* deleteRecord(id) up to its first await, the confirm() accepted.
deleteRecord(id) ==
    /\ id \in ShownIds
    /\ user' = user + 1
    /\ issued' = issued + 1
    /\ net' = net \cup {Fetch(issued + 1, "DELETE", id, NoBody)}
    /\ calls' = calls \cup {[fn |-> "deleteRecord", at |-> "fetch", await |-> issued + 1]}
    /\ dels' = [t \in DOMAIN dels \cup {issued + 1} |->
                  IF t = issued + 1 THEN [id |-> id, status |-> 0] ELSE dels[t]]
    /\ UNCHANGED <<medicalRecords, formHidden, form, notification, lastLoad>>
    /\ UNCHANGED <<table, seq, now, initPc, req, resp, startEmpty, nreq, deleted, posted>>

\* deleteRecord after await fetch: on success the call of loadRecordsFromDB();
\* otherwise the catch.
deleteRecordAnswered ==
    \E c \in calls, m \in net :
       /\ c.fn = "deleteRecord" /\ c.at = "fetch" /\ m.tag = c.await /\ m.dir = "resp"
       /\ dels' = [dels EXCEPT ![m.tag].status = IF m.status = 0 THEN 1 ELSE m.status]
       /\ IF Ok(m)
          THEN /\ StartLoad("deleteRecord", calls \ {c}, net \ {m})
               /\ UNCHANGED notification
          ELSE /\ notification' =
                     Notification(ErrorMessage(m, "Failed to delete record"), "error")
               /\ calls' = calls \ {c}
               /\ net' = net \ {m}
               /\ UNCHANGED issued
       /\ UNCHANGED <<medicalRecords, formHidden, form, user, lastLoad>>
       /\ UNCHANGED <<table, seq, now, initPc, req, resp, startEmpty, nreq, deleted, posted>>

\* The setTimeout of showNotification removes the notification.
notificationTimeout ==
    /\ notification # NoNotification
    /\ notification' = NoNotification
    /\ UNCHANGED <<medicalRecords, formHidden, form, calls, net, issued, user, lastLoad, dels>>
    /\ UNCHANGED <<table, seq, now, initPc, req, resp, startEmpty, nreq, deleted, posted>>

\* A request does not reach the server: fetch rejects.
FetchFails ==
    \E m \in net :
       /\ m.dir = "req"
       /\ net' = (net \ {m}) \cup {[m EXCEPT !.dir = "resp"]}
       /\ UNCHANGED <<medicalRecords, formHidden, form, notification, calls, issued, user,
                      lastLoad, dels>>
       /\ UNCHANGED <<table, seq, now, initPc, req, resp, startEmpty, nreq, deleted, posted>>

\* The server takes request m off the wire, runs its handler and answers.
Route(m) ==
    /\ m.dir = "req"
    /\ \/ m.op = "POST" /\ Post(m.body)
       \/ m.op = "DELETE" /\ Del(m.id)
       \/ m.op = "LIST" /\ List
    /\ net' = (net \ {m}) \cup {Answered(m, resp')}
    /\ UNCHANGED <<medicalRecords, formHidden, form, notification, calls, issued, user,
                   lastLoad, dels>>

\* The history section: the user opens it and deletes records.
NextList ==
    \/ user < MaxUser /\ showHistory
    \/ loadRecordsFromDB
    \/ user < MaxUser /\ \E id \in ShownIds : deleteRecord(id)
    \/ deleteRecordAnswered
    \/ notificationTimeout
    \/ FetchFails
    \/ \E m \in net : Route(m)

SpecList == InitClient /\ [][NextList]_vars

\* The add-record form: the user opens, fills and submits it.
NextForm ==
    \/ toggleAddForm
    \/ \E b \in FormInputs : FillForm(b)
    \/ addRecord(MaxSubmit)
    \/ addRecordAnswered
    \/ loadRecordsFromDB
    \/ notificationTimeout
    \/ FetchFails
    \/ \E m \in net : Route(m)

SpecForm == InitClient /\ [][NextForm]_vars

(***************************************************************************)
(* Vocabulary of the properties.                                           *)
(***************************************************************************)

\* The step handles a request (req', resp' are that request and its answer).
Step == nreq' = nreq + 1

\* Row r carries the six user values of body b, an absent or empty condition
\* read back as null.
SameUserFields(r, b) ==
    /\ r.medicine = b.medicine
    /\ r.dosage = b.dosage
    /\ r.duration = b.duration
    /\ r.start_date = DateValue(b.startDate)
    /\ r.end_date = DateValue(b.endDate)
    /\ r.condition = (IF b.condition \in {Undefined, ""} THEN Null ELSE b.condition)

IsPresent(v) == v # Undefined /\ v # ""

AllRequiredPresent(b) ==
    /\ IsPresent(b.medicine)
    /\ IsPresent(b.dosage)
    /\ IsPresent(b.duration)
    /\ IsPresent(b.startDate)
    /\ IsPresent(b.endDate)

WellFormedDates(b) == DateValue(b.startDate) # NaN /\ DateValue(b.endDate) # NaN

\* A valid POST input: the five required fields non-empty, startDate <= endDate.
ValidInput(b) ==
    /\ AllRequiredPresent(b)
    /\ WellFormedDates(b)
    /\ DateValue(b.startDate) <= DateValue(b.endDate)

\* Every text value is within the width of its column.
WithinWidths(b) ==
    /\ Len(b.medicine) <= MedicineLen
    /\ Len(b.dosage) <= DosageLen
    /\ Len(b.duration) <= DurationLen
    /\ (b.condition = Undefined \/ Len(b.condition) <= ConditionLen)

Rejected(status) == status >= 400

(***************************************************************************)
(* C1.  Every stored record has startDate <= endDate, and a POST or PUT    *)
(* whose startDate is after its endDate is answered 400 and writes         *)
(* nothing.  app.put never compares the dates: the statement fails.        *)
(***************************************************************************)
C1_DatesOrdered ==
    [][ /\ \A i \in DOMAIN table' : table'[i].start_date <= table'[i].end_date
        /\ (Step /\ req'.op \in {"POST", "PUT"}
               /\ DateAfter(req'.body.startDate, req'.body.endDate))
           => (resp'.status = 400 /\ table' = table) ]_vars

(***************************************************************************)
(* C2.  POST then GET.  P(b) says which inputs are promised a 201.         *)
(*   - a POST of such an input is answered 201 with one row, whose id no   *)
(*     row has or had, carrying the input's six user values;               *)
(*   - while no PUT or DELETE names that id, the table holds that row and  *)
(*     GET on the id answers 200 with it.                                  *)
(***************************************************************************)
PostThenGet(P(_)) ==
    /\ (Step /\ req'.op = "POST" /\ P(req'.body))
       => /\ resp'.status = 201
          /\ Len(resp'.rows) = 1
          /\ resp'.rows[1].id \notin DOMAIN table \cup deleted
          /\ resp'.rows[1].id > seq
          /\ resp'.rows[1].id \in DOMAIN posted'
          /\ SameUserFields(resp'.rows[1], req'.body)
          /\ resp'.rows[1].created_at = now
          /\ resp'.rows[1].updated_at = now
    /\ \A i \in DOMAIN posted' :
          /\ i \in DOMAIN table'
          /\ table'[i].id = i
          /\ SameUserFields(table'[i], posted'[i])
    /\ (Step /\ req'.op = "GET" /\ req'.id \in DOMAIN posted')
       => /\ resp'.status = 200
          /\ resp'.rows = <<table'[req'.id]>>
          /\ SameUserFields(resp'.rows[1], posted'[req'.id])

AcceptedInput(b) == ValidInput(b) /\ WithinWidths(b)

C3_DeletedStaysGone ==
    /\ \A i \in deleted : i \notin DOMAIN table
    /\ (req.op = "DELETE" /\ resp.status = 200) => req.id \in deleted
    /\ (req.op = "GET" /\ req.id \in deleted) => resp.status = 404

\* C3 witness: a GET answered 404 on a deleted id, after a POST created a row.
C3_Witness ==
    /\ req.op = "GET"
    /\ req.id \in deleted
    /\ resp.status = 404
    /\ DOMAIN posted # {}

(***************************************************************************)
(* C4.  A rejected request leaves the stored records as they were.  P(b)   *)
(* says for which bodies a PUT on an id without row is promised the 404.   *)
(*   - any answer of 400 or above leaves the table unchanged;              *)
(*   - PUT on an id without row creates no row, and answers 404 when P;    *)
(*   - DELETE on an id without row answers 404, the row count unchanged;   *)
(*   - POST with a required field missing or with startDate after endDate  *)
(*     answers 400 and creates no row.                                     *)
(***************************************************************************)
RejectionsKeepStore(P(_)) ==
    Step =>
      /\ Rejected(resp'.status) => table' = table
      /\ (req'.op = "PUT" /\ req'.id \notin DOMAIN table)
         => /\ table' = table
            /\ Rejected(resp'.status)
            /\ P(req'.body) => resp'.status = 404
      /\ (req'.op = "DELETE" /\ req'.id \notin DOMAIN table)
         => /\ resp'.status = 404
            /\ Cardinality(DOMAIN table') = Cardinality(DOMAIN table)
            /\ table' = table
      /\ (req'.op = "POST"
            /\ (~AllRequiredPresent(req'.body)
                  \/ DateAfter(req'.body.startDate, req'.body.endDate)))
         => /\ resp'.status = 400
            /\ table' = table

AnyBody(b) == TRUE

\* C4 as claimed: PUT on an id without row answers 404 whatever its body.
\* app.put validates the body first: with a required field missing the
\* answer is 400.
C4_RejectionsKeepStore_AsClaimed == [][RejectionsKeepStore(AnyBody)]_vars

PassesToStore(b) == AllRequiredPresent(b) /\ WellFormedDates(b) /\ WithinWidths(b)

\* C4 amended: as above, the 404 of PUT promised for the bodies that pass the
\* validation and that the store accepts; the others are answered 400 (a
\* required field missing) or 500, and create no row either.
C4_RejectionsKeepStore ==
    [][ /\ RejectionsKeepStore(PassesToStore)
        /\ (Step /\ req'.op = "PUT" /\ req'.id \notin DOMAIN table
               /\ ~AllRequiredPresent(req'.body))
           => resp'.status = 400 ]_vars

\* C4 witness: a PUT of a complete body on an id never handed out, answered
\* 404, the table holding no row of that id.
C4_Witness ==
    /\ req.op = "PUT"
    /\ req.id > seq
    /\ PassesToStore(req.body)
    /\ resp.status = 404
    /\ req.id \notin DOMAIN table

(***************************************************************************)
(* C5.  GET /records answers 200 with exactly the stored rows, each once,  *)
(* ordered by start_date descending; a row whose start_date is later than  *)
(* every other's comes first.                                              *)
(***************************************************************************)
C5_ListingSorted ==
    req.op = "LIST" =>
      /\ resp.status = 200
      /\ Len(resp.rows) = Cardinality(DOMAIN table)
      /\ {resp.rows[k] : k \in 1 .. Len(resp.rows)} = {table[i] : i \in DOMAIN table}
      /\ \A k \in 1 .. Len(resp.rows) - 1 :
            resp.rows[k].start_date >= resp.rows[k + 1].start_date
      /\ \A i \in DOMAIN table :
            (\A j \in DOMAIN table \ {i} : table[i].start_date > table[j].start_date)
            => resp.rows[1] = table[i]

\* C5 witness: the listing of the three seed rows and a posted Ibuprofen row,
\* Ibuprofen first.
C5_Witness ==
    /\ req.op = "LIST"
    /\ Len(resp.rows) = 4
    /\ resp.rows[1].medicine = "Ibuprofen"
    /\ resp.rows[1].id \in DOMAIN posted
    /\ resp.rows[4].medicine = "Amoxicillin"

(***************************************************************************)
(* C6.  A PUT answered 200 replaces the six user values of the row of that *)
(* id by the request's, sets its updated_at to the instant of the update   *)
(* (later than the one it had), keeps its id and created_at, and changes   *)
(* no other row and not the set of rows.                                   *)
(***************************************************************************)
C6_PutFrame ==
    [][ (Step /\ req'.op = "PUT" /\ resp'.status = 200)
        => /\ req'.id \in DOMAIN table
           /\ DOMAIN table' = DOMAIN table
           /\ SameUserFields(table'[req'.id], req'.body)
           /\ table'[req'.id].updated_at = now
           /\ table'[req'.id].updated_at > table[req'.id].updated_at
           /\ table'[req'.id].id = req'.id
           /\ table'[req'.id].created_at = table[req'.id].created_at
           /\ \A j \in DOMAIN table \ {req'.id} : table'[j] = table[j]
           /\ resp'.rows = <<table'[req'.id]>> ]_vars

\* C6 witness: a PUT answered 200 on a seed row, which now carries the
\* request's medicine and an updated_at later than its created_at.
C6_Witness ==
    /\ req.op = "PUT"
    /\ resp.status = 200
    /\ req.id \in DOMAIN table
    /\ table[req.id].medicine = "Ibuprofen"
    /\ table[req.id].updated_at > table[req.id].created_at
    /\ table[req.id].created_at = req.id

(***************************************************************************)
(* C7.  When initializeDatabase completes on a table that was empty at     *)
(* startup, the table holds the three rows of sampleData, also with        *)
(* requests served meanwhile.  The server listens while the seeding runs:  *)
(* a POST handled before the COUNT leaves the table unseeded, and a DELETE *)
(* handled between two inserts removes a seed row.                         *)
(***************************************************************************)
HoldsSampleData ==
    \A k \in 1 .. Len(sampleData) :
       \E i \in DOMAIN table : SameUserFields(table[i], sampleData[k])

C7_SeededAfterInit ==
    [][ (initPc # "done" /\ initPc' = "done" /\ startEmpty) => HoldsSampleData' ]_vars

(***************************************************************************)
(* C8.  The add-record workflow.  The step reads the answer to the POST of *)
(* a submission made from the open form:                                   *)
(*   - on success the form ends hidden and reset;                          *)
(*   - on failure (and on the client's own date check) the form, open when *)
(*     the failure is handled, stays open with its values and an error     *)
(*     notification is shown.                                              *)
(* On success addRecord calls toggleAddForm(), which flips the form rather *)
(* than hiding it: after a second submission, or after the user hid the    *)
(* form meanwhile, the form ends open.  The statement fails.               *)
(***************************************************************************)
\* The call of addRecord that reads its answer in this step.
AddAnswered(c) ==
    /\ c \in calls
    /\ c.fn = "addRecord" /\ c.at = "fetch"
    /\ c \notin calls'

AddSucceeded(c) ==
    /\ AddAnswered(c)
    /\ \E d \in calls' \ calls : d.fn = "addRecord" /\ d.at = "load"

AddFailed(c) == AddAnswered(c) /\ calls' = calls \ {c}

C8_AddRecordWorkflow ==
    [][ /\ \A c \in calls :
             /\ AddSucceeded(c) => (formHidden' /\ form' = EmptyForm)
             /\ (AddFailed(c) /\ ~formHidden)
                => (~formHidden' /\ form' = form /\ notification'.type = "error")
        /\ (~formHidden /\ DateAfter(form.startDate, form.endDate)
               /\ notification' # notification /\ notification' # NoNotification)
           => (~formHidden' /\ form' = form /\ notification'.type = "error") ]_vars

(***************************************************************************)
(* C9.  With no list fetch in flight, medicalRecords is the normalized     *)
(* answer of the most recently issued list fetch that succeeded; a failed  *)
(* load leaves medicalRecords unchanged.  loadRecordsFromDB assigns        *)
(* whatever answer it reads last: an answer read after that of a fetch     *)
(* issued later overwrites it.  The statement fails.                       *)
(***************************************************************************)
NoLoadInFlight == \A c \in calls : c.at # "load"

LoadFailed ==
    \E c \in calls, m \in net :
       /\ c.at = "load" /\ m.tag = c.await /\ m.dir = "resp" /\ ~Ok(m)
       /\ c \notin calls'

C9_ListMirrorsLatestFetch ==
    [][ /\ (NoLoadInFlight' /\ lastLoad'.tag > 0) => medicalRecords' = lastLoad'.list
        /\ LoadFailed => medicalRecords' = medicalRecords ]_vars

(***************************************************************************)
(* C10.  Double delete.  For an id with two DELETE fetches, both answered  *)
(* by the server, and no list fetch read with a failure:                   *)
(*   - one answer is 200 and the other 404, the row of the id is gone and  *)
(*     no row is gone without a DELETE fetch of its id;                    *)
(*   - reading the 404 shows an error notification, leaves medicalRecords  *)
(*     as it is and starts no fetch;                                       *)
(*   - once no call is suspended and no fetch in flight, medicalRecords    *)
(*     holds no record of the id.                                          *)
(* The last part fails with C9: the answer of a list fetch issued before   *)
(* the DELETE and read after the reload puts the record back.              *)
(***************************************************************************)
DeletesOf(id) == {t \in DOMAIN dels : dels[t].id = id}

DoubleDeleted(id) ==
    /\ Cardinality(DeletesOf(id)) = 2
    /\ \A t \in DeletesOf(id) : dels[t].status >= 200
    /\ ~lastLoad.failed

Quiescent == calls = {} /\ net = {}

DoubleDeleteOutcome ==
    \A id \in {dels[t].id : t \in DOMAIN dels} :
       DoubleDeleted(id) =>
         /\ {dels[t].status : t \in DeletesOf(id)} = {200, 404}
         /\ id \notin DOMAIN table
         /\ \A i \in deleted : DeletesOf(i) # {}
         /\ Quiescent => id \notin ShownIds

C10_DoubleDelete ==
    [][ /\ DoubleDeleteOutcome'
        /\ \A t \in DOMAIN dels :
              (dels[t].status = 0 /\ dels'[t].status = 404)
              => /\ medicalRecords' = medicalRecords
                 /\ notification'.type = "error"
                 /\ issued' = issued ]_vars

====
